---- MODULE Spec2Model ----
(***************************************************************************)
(* bevy_ui_preferences: the UiPreferences resource, the conversion of a    *)
(* mundy::Preferences bundle into it, and the update pump that moves       *)
(* bundles from the mundy stream through a crossbeam channel into the      *)
(* resource (subscribe_to_preferences, forward_stream_to_receiver,         *)
(* poll_system_preferences).                                               *)
(*                                                                         *)
(* Representation of Rust values:                                          *)
(*   Option<T>        a set with at most one element: {} is None,          *)
(*                    {x} is Some(x)                                       *)
(*   tuple struct     a tuple; field .0 is index 1                         *)
(*   mundy enum       a record [crate |-> "mundy", variant |-> name]       *)
(*   this crate's enum  the variant's name, a string                       *)
(*   f64              [sign, exp, hi, lo]: sign bit, the 11 biased         *)
(*                    exponent bits, the upper 23 and the lower 29 bits    *)
(*                    of the 52 fraction bits                              *)
(*   f32              [sign, exp, frac]: sign bit, the 8 biased exponent   *)
(*                    bits, the 23 fraction bits                           *)
(***************************************************************************)
EXTENDS Integers, Sequences, FiniteSets, TLC

\* Longest sequence of bundles the external stream yields before it ends.
MaxStream == 3

----------------------------------------------------------------------------
(* The enumerated preference types of this crate and of mundy.             *)

ColorScheme == {"NoPreference", "Light", "Dark"}
Contrast == {"NoPreference", "More", "Less", "Custom"}
ReducedMotion == {"NoPreference", "Reduce"}
ReducedTransparency == {"NoPreference", "Reduce"}

\* Fault model of ColorSchemeDefault: #[default] on the wrong variant.
ColorSchemeDefault_Light == "Light"

\* #[default] of each enum.
ColorSchemeDefault == "NoPreference"
ContrastDefault == "NoPreference"
ReducedMotionDefault == "NoPreference"
ReducedTransparencyDefault == "NoPreference"

Mundy(name) == [crate |-> "mundy", variant |-> name]

MundyColorScheme == {Mundy("NoPreference"), Mundy("Light"), Mundy("Dark")}
MundyContrast ==
    {Mundy("NoPreference"), Mundy("More"), Mundy("Less"), Mundy("Custom")}
MundyReducedMotion == {Mundy("NoPreference"), Mundy("Reduce")}
MundyReducedTransparency == {Mundy("NoPreference"), Mundy("Reduce")}

\* impl From<mundy::ColorScheme> for ColorScheme
ColorSchemeFrom(value) ==
    CASE value = Mundy("NoPreference") -> "NoPreference"
      [] value = Mundy("Light") -> "Light"
      [] value = Mundy("Dark") -> "Dark"

\* Fault model of ContrastFrom: two arms of the match map to one variant.
ContrastFrom_LessAsMore(value) ==
    CASE value = Mundy("NoPreference") -> "NoPreference"
      [] value = Mundy("More") -> "More"
      [] value = Mundy("Less") -> "More"
      [] value = Mundy("Custom") -> "Custom"

\* impl From<mundy::Contrast> for Contrast
ContrastFrom(value) ==
    CASE value = Mundy("NoPreference") -> "NoPreference"
      [] value = Mundy("More") -> "More"
      [] value = Mundy("Less") -> "Less"
      [] value = Mundy("Custom") -> "Custom"

\* impl From<mundy::ReducedMotion> for ReducedMotion
ReducedMotionFrom(value) ==
    CASE value = Mundy("NoPreference") -> "NoPreference"
      [] value = Mundy("Reduce") -> "Reduce"

\* impl From<mundy::ReducedTransparency> for ReducedTransparency
ReducedTransparencyFrom(value) ==
    CASE value = Mundy("NoPreference") -> "NoPreference"
      [] value = Mundy("Reduce") -> "Reduce"

----------------------------------------------------------------------------
(* Accent colour: f64 components narrowed to f32 (`c as f32`).             *)

F64(sign, exp, hi, lo) == [sign |-> sign, exp |-> exp, hi |-> hi, lo |-> lo]
F32(sign, exp, frac) == [sign |-> sign, exp |-> exp, frac |-> frac]

\* The f32 whose 31 low bits are `bits` (biased exponent above the fraction).
F32FromBits(sign, bits) == F32(sign, bits \div 2^23, bits % 2^23)

\* `c as f32` for c: f64. Round to nearest, ties to even; a magnitude too
\* large becomes an infinity, one too small a subnormal or a zero; a NaN
\* stays a (quiet) NaN.
AsF32(c) ==
    LET e == c.exp - 1023
        sig == 2^23 + c.hi
    IN  IF c.exp = 2047
          THEN IF c.hi = 0 /\ c.lo = 0
                 THEN F32(c.sign, 255, 0)
                 ELSE F32(c.sign, 255, 2^22 + (c.hi % 2^22))
        ELSE IF c.exp = 0 THEN F32(c.sign, 0, 0)
        ELSE IF e > 127 THEN F32(c.sign, 255, 0)
        ELSE IF e >= -126
          THEN LET up == \/ c.lo > 2^28
                         \/ c.lo = 2^28 /\ c.hi % 2 = 1
               IN  F32FromBits(c.sign, (e + 127) * 2^23 + c.hi
                                        + (IF up THEN 1 ELSE 0))
        ELSE IF -126 - e > 24 THEN F32(c.sign, 0, 0)
        ELSE LET s == -126 - e
                 q == sig \div 2^s
                 r == sig % 2^s
                 half == 2^(s - 1)
                 up == \/ r > half
                       \/ r = half /\ c.lo > 0
                       \/ r = half /\ c.lo = 0 /\ q % 2 = 1
             IN  F32FromBits(c.sign, q + (IF up THEN 1 ELSE 0))

\* mundy::Srgba::to_f64_array
to_f64_array(c) == <<c.red, c.green, c.blue, c.alpha>>

\* Srgba::from_f32_array followed by Color::from(Srgba)
from_f32_array(a) ==
    [space |-> "Srgba", red |-> a[1], green |-> a[2], blue |-> a[3],
     alpha |-> a[4]]

\* fn to_bevy_color(color: mundy::AccentColor) -> Option<Color>
to_bevy_color(color) ==
    { from_f32_array([i \in 1..4 |-> AsF32(to_f64_array(c)[i])]) :
        c \in color[1] }

----------------------------------------------------------------------------
(* The snapshot and its conversion from a bundle.                          *)

\* UiPreferences::default() (#[derive(Default)])
UiPreferencesDefault ==
    [color_scheme |-> ColorSchemeDefault,
     contrast |-> ContrastDefault,
     reduced_motion |-> ReducedMotionDefault,
     reduced_transparency |-> ReducedTransparencyDefault,
     accent_color |-> {},
     double_click_interval |-> {}]

\* impl From<mundy::Preferences> for UiPreferences
UiPreferencesFrom(value) ==
    [color_scheme |-> ColorSchemeFrom(value.color_scheme),
     contrast |-> ContrastFrom(value.contrast),
     reduced_motion |-> ReducedMotionFrom(value.reduced_motion),
     reduced_transparency |->
         ReducedTransparencyFrom(value.reduced_transparency),
     accent_color |-> to_bevy_color(value.accent_color),
     double_click_interval |-> value.double_click_interval[1]]

----------------------------------------------------------------------------
(* Bundles the external stream can yield.                                  *)

Duration(secs, nanos) == [secs |-> secs, nanos |-> nanos]

MundySrgba(r, g, b, a) == [red |-> r, green |-> g, blue |-> b, alpha |-> a]

\* f64 literals
F64_0_0 == F64(0, 0, 0, 0)
F64_0_1 == F64(0, 1019, 5033164, 429496730)
F64_0_3 == F64(0, 1021, 1677721, 322122547)
F64_0_5 == F64(0, 1022, 0, 0)
F64_0_7 == F64(0, 1022, 3355443, 107374182)
F64_1_0 == F64(0, 1023, 0, 0)

MundyPreferences(cs, c, rm, rt, ac, dci) ==
    [color_scheme |-> Mundy(cs), contrast |-> Mundy(c),
     reduced_motion |-> Mundy(rm), reduced_transparency |-> Mundy(rt),
     accent_color |-> <<ac>>, double_click_interval |-> <<dci>>]

\* The bundles the stream is drawn from: between them every variant of every
\* enumerated preference, present and absent accent colours (with components
\* that f32 holds exactly and components it rounds), present and absent
\* double-click intervals.
StreamValues ==
    { MundyPreferences("NoPreference", "NoPreference", "NoPreference",
                       "NoPreference", {}, {}),
      MundyPreferences("Light", "More", "Reduce", "NoPreference",
                       {MundySrgba(F64_0_1, F64_0_5, F64_1_0, F64_1_0)}, {}),
      MundyPreferences("Dark", "Less", "NoPreference", "Reduce",
                       {}, {Duration(0, 500000000)}),
      MundyPreferences("Dark", "Custom", "Reduce", "Reduce",
                       {MundySrgba(F64_0_7, F64_0_3, F64_0_0, F64_0_5)},
                       {Duration(1, 250000000)}) }

\* Every sequence of at most n elements of S.
SeqUpTo(S, n) == UNION { [1..k -> S] : k \in 0..n }

----------------------------------------------------------------------------
(* State.                                                                  *)

VARIABLES
    preferences_res,  \* the UiPreferences resource
    channel,          \* messages in the crossbeam channel, oldest first
    stream,           \* what the mundy stream yields before it ends
    stream_pos,       \* how many of them stream.next() has returned
    task_pc,          \* forward_stream_to_receiver: "unspawned", "next"
                      \* (awaiting stream.next()), "send" (about to send),
                      \* "Ok" / "Err" (returned; its Sender is dropped)
    preferences,      \* the task's local `preferences`: Some while "send"
    app_phase,        \* "Startup" (built), "Update" (ticking), "Exit"
                      \* (the World and its Receiver resource are dropped)
    poll_result       \* what the last poll_system_preferences returned

vars == <<preferences_res, channel, stream, stream_pos, task_pc, preferences,
          app_phase, poll_result>>

\* The task returned, so the Sender it owned is dropped.
SenderDropped == task_pc \in {"Ok", "Err"}

\* The Receiver resource exists.
ReceiverAlive == app_phase = "Update"

\* UiPreferencesPlugin::build: init_resource::<UiPreferences>(); the systems
\* are registered and nothing has run.
Init ==
    /\ preferences_res = UiPreferencesDefault
    /\ channel = <<>>
    /\ stream \in SeqUpTo(StreamValues, MaxStream)
    /\ stream_pos = 0
    /\ task_pc = "unspawned"
    /\ preferences = {}
    /\ app_phase = "Startup"
    /\ poll_result = "NotRun"

\* fn subscribe_to_preferences: creates the channel, spawns the forwarding
\* task with the Sender and the stream, inserts the Receiver resource.
subscribe_to_preferences ==
    /\ app_phase = "Startup"
    /\ channel' = <<>>
    /\ task_pc' = "next"
    /\ app_phase' = "Update"
    /\ UNCHANGED <<preferences_res, stream, stream_pos, preferences,
                   poll_result>>

\* Fault model of stream_next: the loop takes one bundle from the stream to
\* test for its end and forwards the one after it.
stream_next_skips_one ==
    /\ task_pc = "next"
    /\ IF stream_pos + 1 < Len(stream)
         THEN /\ stream_pos' = stream_pos + 2
              /\ preferences' = {stream[stream_pos + 2]}
              /\ task_pc' = "send"
         ELSE /\ task_pc' = "Ok"
              /\ stream_pos' = Len(stream)
              /\ UNCHANGED preferences
    /\ UNCHANGED <<preferences_res, channel, stream, app_phase, poll_result>>

\* forward_stream_to_receiver, `while let Some(preferences) =
\* stream.next().await`: the stream yields its next bundle, or it has ended
\* and the task returns Ok(()).
stream_next ==
    /\ task_pc = "next"
    /\ IF stream_pos < Len(stream)
         THEN /\ stream_pos' = stream_pos + 1
              /\ preferences' = {stream[stream_pos + 1]}
              /\ task_pc' = "send"
         ELSE /\ task_pc' = "Ok"
              /\ UNCHANGED <<stream_pos, preferences>>
    /\ UNCHANGED <<preferences_res, channel, stream, app_phase, poll_result>>

\* crossbeam_channel::Sender::send on an unbounded channel: appends, or
\* fails when every Receiver is dropped.
send(chan, msg, receiver_alive) ==
    IF receiver_alive
      THEN [ok |-> TRUE, chan |-> Append(chan, msg)]
      ELSE [ok |-> FALSE, chan |-> chan]

\* Fault model of sender_send: the task also stores the bundle in the
\* resource itself.
sender_send_writes_resource ==
    /\ task_pc = "send"
    /\ \E msg \in preferences :
         LET r == send(channel, msg, ReceiverAlive)
         IN  /\ channel' = r.chan
             /\ task_pc' = IF r.ok THEN "next" ELSE "Err"
             /\ preferences_res' = UiPreferencesFrom(msg)
    /\ preferences' = {}
    /\ UNCHANGED <<stream, stream_pos, app_phase, poll_result>>

\* forward_stream_to_receiver, `sender.send(preferences)?`.
sender_send ==
    /\ task_pc = "send"
    /\ \E msg \in preferences :
         LET r == send(channel, msg, ReceiverAlive)
         IN  /\ channel' = r.chan
             /\ task_pc' = IF r.ok THEN "next" ELSE "Err"
    /\ preferences' = {}
    /\ UNCHANGED <<preferences_res, stream, stream_pos, app_phase,
                   poll_result>>

\* crossbeam_channel::Receiver::try_recv: the oldest message if there is
\* one; otherwise Disconnected if every Sender is dropped, else Empty.
try_recv(chan, sender_dropped) ==
    IF chan # <<>> THEN [ok |-> TRUE, value |-> Head(chan)]
    ELSE IF sender_dropped THEN [ok |-> FALSE, err |-> "Disconnected"]
    ELSE [ok |-> FALSE, err |-> "Empty"]

\* Fault models of poll_system_preferences.

\* Takes every pending message and keeps the newest.
poll_latest_only ==
    /\ app_phase = "Update"
    /\ IF channel # <<>>
         THEN /\ preferences_res' = UiPreferencesFrom(channel[Len(channel)])
              /\ channel' = <<>>
              /\ poll_result' = "Ok"
         ELSE /\ poll_result' = IF SenderDropped THEN "Err" ELSE "Ok"
              /\ UNCHANGED <<preferences_res, channel>>
    /\ UNCHANGED <<stream, stream_pos, task_pc, preferences, app_phase>>

\* `receiver.0.try_recv()?`: Empty is returned as an error too.
poll_empty_is_error ==
    /\ app_phase = "Update"
    /\ LET r == try_recv(channel, SenderDropped)
       IN  \/ /\ r.ok
              /\ preferences_res' = UiPreferencesFrom(r.value)
              /\ channel' = Tail(channel)
              /\ poll_result' = "Ok"
           \/ /\ ~r.ok
              /\ poll_result' = "Err"
              /\ UNCHANGED <<preferences_res, channel>>
    /\ UNCHANGED <<stream, stream_pos, task_pc, preferences, app_phase>>

\* `Err(_) => return Ok(())`: every receive error is taken for Empty.
poll_swallows_errors ==
    /\ app_phase = "Update"
    /\ LET r == try_recv(channel, SenderDropped)
       IN  \/ /\ r.ok
              /\ preferences_res' = UiPreferencesFrom(r.value)
              /\ channel' = Tail(channel)
              /\ poll_result' = "Ok"
           \/ /\ ~r.ok
              /\ poll_result' = "Ok"
              /\ UNCHANGED <<preferences_res, channel>>
    /\ UNCHANGED <<stream, stream_pos, task_pc, preferences, app_phase>>

\* Assigns the enumerated fields and keeps the optional ones
\* (`..*preferences_res`).
poll_partial_update ==
    /\ app_phase = "Update"
    /\ LET r == try_recv(channel, SenderDropped)
       IN  \/ /\ r.ok
              /\ preferences_res' =
                   [UiPreferencesFrom(r.value) EXCEPT
                      !.accent_color = preferences_res.accent_color,
                      !.double_click_interval =
                          preferences_res.double_click_interval]
              /\ channel' = Tail(channel)
              /\ poll_result' = "Ok"
           \/ /\ ~r.ok /\ r.err = "Empty"
              /\ poll_result' = "Ok"
              /\ UNCHANGED <<preferences_res, channel>>
           \/ /\ ~r.ok /\ r.err # "Empty"
              /\ poll_result' = "Err"
              /\ UNCHANGED <<preferences_res, channel>>
    /\ UNCHANGED <<stream, stream_pos, task_pc, preferences, app_phase>>

\* Tests for a dropped Sender before it receives.
poll_disconnected_first ==
    /\ app_phase = "Update"
    /\ IF SenderDropped
         THEN /\ poll_result' = "Err"
              /\ UNCHANGED <<preferences_res, channel>>
         ELSE IF channel # <<>>
           THEN /\ preferences_res' = UiPreferencesFrom(Head(channel))
                /\ channel' = Tail(channel)
                /\ poll_result' = "Ok"
           ELSE /\ poll_result' = "Ok"
                /\ UNCHANGED <<preferences_res, channel>>
    /\ UNCHANGED <<stream, stream_pos, task_pc, preferences, app_phase>>

\* fn poll_system_preferences (PreUpdate, once per tick).
poll_system_preferences ==
    /\ app_phase = "Update"
    /\ LET r == try_recv(channel, SenderDropped)
       IN  \/ /\ r.ok
              /\ preferences_res' = UiPreferencesFrom(r.value)
              /\ channel' = Tail(channel)
              /\ poll_result' = "Ok"
           \/ /\ ~r.ok /\ r.err = "Empty"
              /\ poll_result' = "Ok"
              /\ UNCHANGED <<preferences_res, channel>>
           \/ /\ ~r.ok /\ r.err # "Empty"
              /\ poll_result' = "Err"
              /\ UNCHANGED <<preferences_res, channel>>
    /\ UNCHANGED <<stream, stream_pos, task_pc, preferences, app_phase>>

\* The application ends: the World is dropped and the Receiver resource with
\* it; no system runs again. Messages left in the channel are out of reach.
app_exit ==
    /\ app_phase = "Update"
    /\ app_phase' = "Exit"
    /\ UNCHANGED <<preferences_res, channel, stream, stream_pos, task_pc,
                   preferences, poll_result>>

Next ==
    \/ subscribe_to_preferences
    \/ stream_next
    \/ sender_send
    \/ poll_system_preferences
    \/ app_exit

Spec == Init /\ [][Next]_vars

\* Poll ticks keep occurring for as long as the application runs.
LiveSpec == Spec /\ WF_vars(poll_system_preferences)

----------------------------------------------------------------------------
(* Properties.                                                             *)

\* How many bundles the task has put on the channel: every one the stream
\* returned, less the one it still holds or failed to send.
Sent == IF task_pc \in {"send", "Err"} THEN stream_pos - 1 ELSE stream_pos

\* How many bundles polls have taken off the channel.
Applied == Sent - Len(channel)

\* The snapshot a poll leaves when it receives bundle v.
Converted(v) == UiPreferencesFrom(v)

\* poll_system_preferences runs with at least one message pending.
PollReceives == poll_system_preferences /\ channel # <<>>

\* poll_system_preferences runs with no message pending.
PollEmpty == poll_system_preferences /\ channel = <<>>

\* C1. Draining order: the channel always holds, in arrival order, exactly
\* the bundles sent and not yet applied; each step applies at most the next
\* one; and after the k-th receiving poll the snapshot is the conversion of
\* the k-th bundle sent. Nothing is applied out of order or skipped.
C1_DrainingOrder ==
    /\ [](channel = SubSeq(stream, Applied + 1, Sent))
    /\ [](Applied >= 1 => preferences_res = Converted(stream[Applied]))
    /\ [][Applied' \in {Applied, Applied + 1}]_vars

C1_Witness ==
    /\ Len(stream) >= 2
    /\ stream[1] # stream[2]
    /\ Applied = Len(stream)
    /\ preferences_res = Converted(stream[Len(stream)])

\* C2 as stated. Empty poll is a no-op: whenever no message is pending, a
\* poll leaves the snapshot unchanged and returns Ok.
C2_EmptyPollAlwaysOk ==
    [][PollEmpty =>
         preferences_res' = preferences_res /\ poll_result' = "Ok"]_vars

\* C2, amended. Whenever no message is pending, a poll leaves the snapshot
\* and the channel unchanged, and it returns Ok as long as the forwarding
\* task has not returned (its Sender is not dropped).
C2_EmptyPollNoOp ==
    [][PollEmpty =>
         /\ preferences_res' = preferences_res
         /\ channel' = channel
         /\ (~SenderDropped => poll_result' = "Ok")]_vars

C2_Witness ==
    /\ app_phase = "Update"
    /\ ~SenderDropped
    /\ channel = <<>>
    /\ Applied = 0
    /\ poll_result = "Ok"

\* C3. Wholesale replacement: a poll that receives bundle v leaves every
\* field of the snapshot equal to that field of the conversion of v, whatever
\* the snapshot held before, and returns Ok; after one bundle is sent and one
\* poll has received it the snapshot is that bundle's conversion.
C3_WholesaleReplacement ==
    /\ [][PollReceives =>
            /\ DOMAIN preferences_res' = DOMAIN Converted(Head(channel))
            /\ \A f \in DOMAIN preferences_res' :
                 preferences_res'[f] = Converted(Head(channel))[f]
            /\ poll_result' = "Ok"]_vars
    /\ [](Sent = 1 /\ Applied = 1 =>
            preferences_res = Converted(stream[1]))

\* A bundle without accent colour and interval applied over a snapshot that
\* had both.
C3_Witness ==
    /\ Applied = 2
    /\ stream[1].accent_color # <<{}>>
    /\ stream[1].double_click_interval # <<{}>>
    /\ stream[2].accent_color = <<{}>>
    /\ stream[2].double_click_interval = <<{}>>
    /\ preferences_res.accent_color = {}
    /\ preferences_res.double_click_interval = {}

\* C4. Default snapshot: until a poll has received a bundle, every
\* enumerated field is NoPreference and the accent colour and the
\* double-click interval are None, however many bundles are pending and
\* however many empty polls have run.
C4_DefaultSnapshot ==
    Applied = 0 =>
        /\ preferences_res.color_scheme = "NoPreference"
        /\ preferences_res.contrast = "NoPreference"
        /\ preferences_res.reduced_motion = "NoPreference"
        /\ preferences_res.reduced_transparency = "NoPreference"
        /\ preferences_res.accent_color = {}
        /\ preferences_res.double_click_interval = {}

\* Nothing applied, two bundles pending behind an empty poll.
C4_Witness ==
    /\ Applied = 0
    /\ Len(channel) >= 2
    /\ poll_result = "Ok"
    /\ preferences_res = UiPreferencesDefault

\* C5. At most one per tick: a poll removes exactly the oldest message when
\* one is pending and nothing otherwise; the others stay, in order, so of m
\* pending messages m-1 remain.
C5_OnePerTick ==
    [][poll_system_preferences =>
         IF channel = <<>>
           THEN channel' = channel
           ELSE /\ channel' = SubSeq(channel, 2, Len(channel))
                /\ Len(channel') = Len(channel) - 1]_vars

\* A poll has received and two messages are still pending.
C5_Witness ==
    /\ Applied = 1
    /\ Len(channel) = 2
    /\ poll_result = "Ok"

\* C6. A receive error other than Empty (Disconnected: no message pending
\* and the Sender dropped) makes the poll return Err and leave the snapshot
\* unchanged.
C6_DisconnectedSurfaced ==
    [][(poll_system_preferences
          /\ ~try_recv(channel, SenderDropped).ok
          /\ try_recv(channel, SenderDropped).err # "Empty") =>
         /\ poll_result' = "Err"
         /\ preferences_res' = preferences_res]_vars

C6_Witness ==
    /\ poll_result = "Err"
    /\ SenderDropped
    /\ channel = <<>>

\* C7. Eventual catch-up, given that poll ticks keep occurring while the
\* application runs: every bundle put on the channel is eventually the one a
\* poll applies to the snapshot; and when the k-th bundle sent is the last,
\* eventually the channel is drained and the snapshot is its conversion.
C7_EventualCatchUp ==
    \A k \in 1..MaxStream :
      /\ (Sent >= k /\ Applied < k) ~>
           \/ Applied = k /\ preferences_res = Converted(stream[k])
           \/ ~ReceiverAlive
      /\ (Sent = k) ~>
           \/ Sent > k
           \/ /\ Sent = k
              /\ channel = <<>>
              /\ preferences_res = Converted(stream[k])
           \/ ~ReceiverAlive

\* The stream has ended behind two different bundles and the snapshot has
\* caught up with the last.
C7_Witness ==
    /\ task_pc = "Ok"
    /\ Sent >= 2
    /\ stream[Sent - 1] # stream[Sent]
    /\ channel = <<>>
    /\ preferences_res = Converted(stream[Sent])
    /\ ReceiverAlive

\* The same-named variant of this crate's enum.
SameNamed(value) == value.variant

\* C8. Mapping fidelity: each conversion sends every mundy variant to one
\* variant of this crate's enum, the same-named one; distinct variants go to
\* distinct variants; NoPreference goes to the default, NoPreference. The
\* enumerated fields of an applied snapshot are the same-named variants of
\* the bundle's.
C8_MappingFidelity ==
    /\ \A x \in MundyColorScheme :
         /\ ColorSchemeFrom(x) \in ColorScheme
         /\ ColorSchemeFrom(x) = SameNamed(x)
    /\ \A x \in MundyContrast :
         /\ ContrastFrom(x) \in Contrast
         /\ ContrastFrom(x) = SameNamed(x)
    /\ \A x \in MundyReducedMotion :
         /\ ReducedMotionFrom(x) \in ReducedMotion
         /\ ReducedMotionFrom(x) = SameNamed(x)
    /\ \A x \in MundyReducedTransparency :
         /\ ReducedTransparencyFrom(x) \in ReducedTransparency
         /\ ReducedTransparencyFrom(x) = SameNamed(x)
    /\ \A x, y \in MundyColorScheme :
         x # y => ColorSchemeFrom(x) # ColorSchemeFrom(y)
    /\ \A x, y \in MundyContrast :
         x # y => ContrastFrom(x) # ContrastFrom(y)
    /\ \A x, y \in MundyReducedMotion :
         x # y => ReducedMotionFrom(x) # ReducedMotionFrom(y)
    /\ \A x, y \in MundyReducedTransparency :
         x # y => ReducedTransparencyFrom(x) # ReducedTransparencyFrom(y)
    /\ ColorSchemeFrom(Mundy("NoPreference")) = ColorSchemeDefault
    /\ ContrastFrom(Mundy("NoPreference")) = ContrastDefault
    /\ ReducedMotionFrom(Mundy("NoPreference")) = ReducedMotionDefault
    /\ ReducedTransparencyFrom(Mundy("NoPreference"))
         = ReducedTransparencyDefault
    /\ ColorSchemeDefault = "NoPreference"
    /\ ContrastDefault = "NoPreference"
    /\ ReducedMotionDefault = "NoPreference"
    /\ ReducedTransparencyDefault = "NoPreference"
    /\ Applied >= 1 =>
         /\ preferences_res.color_scheme
              = SameNamed(stream[Applied].color_scheme)
         /\ preferences_res.contrast = SameNamed(stream[Applied].contrast)
         /\ preferences_res.reduced_motion
              = SameNamed(stream[Applied].reduced_motion)
         /\ preferences_res.reduced_transparency
              = SameNamed(stream[Applied].reduced_transparency)

\* A bundle with non-default variants in every enumerated field has been
\* applied.
C8_Witness ==
    /\ Applied >= 1
    /\ stream[Applied].color_scheme = Mundy("Dark")
    /\ stream[Applied].contrast = Mundy("Less")
    /\ stream[Applied].reduced_transparency = Mundy("Reduce")
    /\ preferences_res.color_scheme = "Dark"
    /\ preferences_res.contrast = "Less"
    /\ preferences_res.reduced_transparency = "Reduce"

\* chan2 is chan with one message appended at the tail.
IsAppend(chan, chan2) ==
    /\ Len(chan2) = Len(chan) + 1
    /\ SubSeq(chan2, 1, Len(chan)) = chan

\* chan2 is chan with its head removed.
IsPop(chan, chan2) ==
    /\ chan # <<>>
    /\ chan2 = Tail(chan)

\* C9. Single writer: the snapshot changes only in a step of
\* poll_system_preferences; no step of the forwarding task changes it; the
\* forwarding task changes the channel only by appending at its tail, the
\* poll only by removing its head, and nothing else changes the channel.
C9_SingleWriter ==
    [][/\ preferences_res' # preferences_res => poll_system_preferences
       /\ (stream_next \/ sender_send) =>
            /\ preferences_res' = preferences_res
            /\ channel' = channel \/ IsAppend(channel, channel')
       /\ poll_system_preferences =>
            channel' = channel \/ IsPop(channel, channel')
       /\ channel' # channel =>
            \/ sender_send /\ IsAppend(channel, channel')
            \/ poll_system_preferences /\ IsPop(channel, channel')]_vars

\* The task has sent a bundle that differs from the applied snapshot, and
\* the snapshot is still that of the bundle applied before.
C9_Witness ==
    /\ Applied = 1
    /\ Len(channel) = 1
    /\ Converted(channel[1]) # preferences_res
    /\ preferences_res = Converted(stream[1])
    /\ task_pc = "next"

\* The forwarding task returns in this step.
TaskReturns == task_pc \in {"next", "send"} /\ task_pc' \in {"Ok", "Err"}

\* C10. Termination of the forwarding task is isolated and loses nothing:
\* the step in which it returns (stream ended, or send failed) changes
\* neither the snapshot nor the channel; afterwards every poll that finds a
\* message pending applies the oldest, removes it and returns Ok; and, given
\* that poll ticks keep occurring while the application runs, every bundle
\* still pending when the task has returned is applied.
C10_TerminationLosesNothing ==
    /\ [][TaskReturns =>
            preferences_res' = preferences_res /\ channel' = channel]_vars
    /\ [][(SenderDropped /\ PollReceives) =>
            /\ preferences_res' = Converted(Head(channel))
            /\ channel' = Tail(channel)
            /\ poll_result' = "Ok"]_vars
    /\ \A k \in 1..MaxStream :
         (SenderDropped /\ Sent >= k /\ Applied < k) ~>
           \/ /\ Applied = k
              /\ preferences_res = Converted(stream[k])
              /\ poll_result = "Ok"
           \/ ~ReceiverAlive

\* The task has returned at the end of the stream with two bundles pending.
C10_Witness ==
    /\ task_pc = "Ok"
    /\ Len(channel) >= 2
    /\ ReceiverAlive

====
